---- MODULE Spec2Model ----
(***************************************************************************)
(* A model of md_to_docx_converter.py: the text normalizer clean_text, the *)
(* block mapper process_html_to_docx, the file converter                   *)
(* convert_md_to_docx and the batch converter convert_directory.           *)
(*                                                                         *)
(* A Python str is a sequence of one-character strings.                    *)
(***************************************************************************)
EXTENDS Integers, Sequences, FiniteSets, TLC

\* ------------------------------------------------------------------ bounds
\* An input text of clean_text is a concatenation of at most MaxFrags fragments.
MaxFrags == 5
\* clean_text is applied at most MaxCalls times in a row to its own result.
MaxCalls == 2
\* A parsed markup tree has at most MaxNodes top-level nodes.
MaxNodes == 2
\* A list element has at most MaxItems direct children.
MaxItems == 2
\* The directory given to convert_directory has at most MaxEntries entries.
MaxEntries == 3

\* ------------------------------------------------------- strings (Python str)
\* The whitespace characters of the model: those matched by \s and by strip().
WS == {" ", "\n", "\t"}

\* the en dash written by line 43 (U+2013)
EnDash == "ndash"

RECURSIVE Flatten(_)
Flatten(ss) == IF ss = <<>> THEN <<>> ELSE Head(ss) \o Flatten(Tail(ss))

\* s[n:]  (Python slice from index n, 0-based)
Drop(s, n) == SubSeq(s, n + 1, Len(s))

\* s.startswith(p)
startswith(s, p) == Len(s) >= Len(p) /\ SubSeq(s, 1, Len(p)) = p

\* s.endswith(p)
endswith(s, p) == Len(s) >= Len(p) /\ Drop(s, Len(s) - Len(p)) = p

\* s.lstrip(): the leading whitespace removed
RECURSIVE lstrip(_)
lstrip(s) == IF s # <<>> /\ Head(s) \in WS THEN lstrip(Tail(s)) ELSE s

\* s.rstrip(): the trailing whitespace removed
RECURSIVE rstrip(_)
rstrip(s) ==
  IF s # <<>> /\ s[Len(s)] \in WS THEN rstrip(SubSeq(s, 1, Len(s) - 1)) ELSE s

\* s.strip()
strip(s) == rstrip(lstrip(s))

\* s.replace(old, new): every non-overlapping occurrence of old, left to right
\* (old is never empty in this program).
RECURSIVE replace(_, _, _)
replace(s, old, new) ==
  IF s = <<>> THEN <<>>
  ELSE IF startswith(s, old) THEN new \o replace(Drop(s, Len(old)), old, new)
  ELSE <<Head(s)>> \o replace(Tail(s), old, new)

\* re.sub(r'\s+', ' ', s): every maximal run of whitespace becomes one space.
RECURSIVE re_sub_spaces(_)
re_sub_spaces(s) ==
  IF s = <<>> THEN <<>>
  ELSE IF Head(s) \in WS THEN <<" ">> \o re_sub_spaces(lstrip(s))
  ELSE <<Head(s)>> \o re_sub_spaces(Tail(s))

\* The length of the longest match of \s*\n at the start of s, or -1 when there
\* is none: \s* is greedy and gives characters back until a newline follows, so
\* the match ends at the last newline of the leading whitespace run.
RECURSIVE LastNewline(_, _, _)
LastNewline(s, k, best) ==
  IF k > Len(s) \/ s[k] \notin WS THEN best
  ELSE LastNewline(s, k + 1, IF s[k] = "\n" THEN k ELSE best)

\* re.sub(r'\n\s*\n', '\n', s)
RECURSIVE re_sub_newlines(_)
re_sub_newlines(s) ==
  IF s = <<>> THEN <<>>
  ELSE IF Head(s) = "\n" /\ LastNewline(Tail(s), 1, -1) > 0
       THEN <<"\n">> \o re_sub_newlines(Drop(Tail(s), LastNewline(Tail(s), 1, -1)))
  ELSE <<Head(s)>> \o re_sub_newlines(Tail(s))

\* ------------------------------------------------------------- clean_text
\* The string literals of lines 40, 41 and 43, as Python's tokenizer reads them.
\* Line 40 holds four literals, each the one character ".
DQuote == <<"\"">>
\* Line 41 is  text.replace(''', "'").replace(''', "'") : the first ''' opens a
\* triple-quoted literal that the second ''' closes, so the line is one call,
\* replace(<the 15 characters  , "'").replace(  >, <the one character '>).
Line41Old ==
  <<",", " ", "\"", "'", "\"", ")", ".", "r", "e", "p", "l", "a", "c", "e", "(">>
Line41New == <<"'">>
Dashes == <<"-", "-">>

\* line 36
clean_line36(text) == re_sub_spaces(text)
\* line 38
clean_line38(text) == strip(text)
\* line 40
clean_line40(text) == replace(replace(text, DQuote, DQuote), DQuote, DQuote)
\* line 41
clean_line41(text) == replace(text, Line41Old, Line41New)
\* line 43
clean_line43(text) == replace(text, Dashes, <<EnDash>>)
\* line 45
clean_line45(text) == re_sub_newlines(text)

clean_text(text) ==
  clean_line45(clean_line43(clean_line41(clean_line40(
    clean_line38(clean_line36(text))))))

\* The fragments input texts are made of: whitespace, a dash, a letter, the
\* quote characters, and the two halves of the literal of line 41 around its '.
Fragments ==
  { <<" ">>, <<"\n">>, <<"-">>, <<"a">>, <<"'">>,
    <<",", " ", "\"">>,
    <<"\"", ")", ".", "r", "e", "p", "l", "a", "c", "e", "(">> }

RECURSIVE FragSeqs(_)
FragSeqs(n) ==
  IF n = 0 THEN {<<>>}
  ELSE FragSeqs(n - 1) \cup
       {<<f>> \o fs : f \in Fragments, fs \in {x \in FragSeqs(n - 1) : Len(x) = n - 1}}

Texts == {Flatten(fs) : fs \in FragSeqs(MaxFrags)}

\* ------------------------------------------------------------- the document
\* Pt(n) is n points; 0 stands for an indent or a size that was never set.
ListIndent == 36
QuoteIndent == 48
CodeIndent == 36
CodeSize == 10
RuleSize == 12
RuleWidth == 30
\* paragraph_format.alignment = 1 is WD_ALIGN_PARAGRAPH.CENTER
Center == 1
\* the box-drawing character of line 116 (U+2500)
BoxChar == "box"

\* A run as Document.add_paragraph(text) and Paragraph.add_run(text) create it.
Run(text) ==
  [text |-> text, italic |-> FALSE, font_name |-> "None", font_size |-> 0]

\* The paragraph doc.add_paragraph(text) creates: style Normal, one run holding
\* text when text is not empty, no run otherwise. node is the index of the
\* top-level node the paragraph is made for (not part of the document).
NewParagraph(text, node) ==
  [style |-> "Normal", left_indent |-> 0, right_indent |-> 0, alignment |-> 0,
   runs |-> IF text = <<>> THEN <<>> ELSE <<Run(text)>>, node |-> node]

\* doc.add_paragraph(...): the new paragraph goes to the end of the document.
add_paragraph_front(d, p) == <<p>> \o d
add_paragraph(d, p) == Append(d, p)

\* ------------------------------------------------------ the parsed markup tree
\* A top-level node: name is the tag name ("None" for a NavigableString, whose
\* name is None), text the node's own string or, for an element, the text of its
\* descendants that are not its direct children, children its direct child
\* elements (kept for lists only), each with its tag name and get_text().
NoName == "None"
HeadingNames == {"h1", "h2", "h3", "h4", "h5", "h6"}
ListNames == {"ul", "ol"}

\* int(element.name[1]) of a heading name, in the f-string of line 74
HeadingStyle(name) ==
  CASE name = "h1" -> "Heading 1" [] name = "h2" -> "Heading 2"
    [] name = "h3" -> "Heading 3" [] name = "h4" -> "Heading 4"
    [] name = "h5" -> "Heading 5" [] name = "h6" -> "Heading 6"

\* the texts of top-level nodes and of list items: empty, whitespace-only and
\* not blank
NodeTexts == { <<>>, <<" ">>, <<"a", " ", "\n", "-", "-">> }
ItemTexts == { <<" ">>, <<"a">>, <<"b", "-", "-">> }
ChildSet ==
  [name : {"li"}, text : ItemTexts] \cup {[name |-> "span", text |-> <<"a">>]}

RECURSIVE ChildSeqs(_)
ChildSeqs(n) ==
  IF n = 0 THEN {<<>>}
  ELSE ChildSeqs(n - 1) \cup
       {<<c>> \o cs : c \in ChildSet, cs \in {x \in ChildSeqs(n - 1) : Len(x) = n - 1}}

NodesNamed(names) == [name : names, text : NodeTexts, children : {<<>>}]
ListNodes == [name : ListNames, text : {<<>>}, children : ChildSeqs(MaxItems)]

\* element.get_text(): the text of all descendants, concatenated
get_text(e) ==
  e.text \o Flatten([k \in DOMAIN e.children |-> e.children[k].text])

\* element.find_all('li', recursive=False): the direct children named li, in order
find_all_any(e) == e.children
find_all_li(e) == SelectSeq(e.children, LAMBDA c : c.name = "li")

\* ------------------------------------------------------------- os.path
\* None, the default of --output: no str is equal to it.
None == <<"None">>
Sep == "/"
ExtSep == "."

\* s.rfind(c) + 1: the position of the last c in s, 0 when there is none
RECURSIVE rfind(_, _)
rfind(s, c) ==
  IF s = <<>> THEN 0 ELSE IF s[Len(s)] = c THEN Len(s)
  ELSE rfind(SubSeq(s, 1, Len(s) - 1), c)

\* s.rstrip('/')
RECURSIVE rstrip_sep(_)
rstrip_sep(s) ==
  IF s # <<>> /\ s[Len(s)] = Sep THEN rstrip_sep(SubSeq(s, 1, Len(s) - 1)) ELSE s

\* os.path.basename(p)
basename(p) == Drop(p, rfind(p, Sep))

\* os.path.dirname(p)
dirname(p) ==
  LET head == SubSeq(p, 1, rfind(p, Sep)) IN
  IF head # <<>> /\ \E k \in DOMAIN head : head[k] # Sep THEN rstrip_sep(head)
  ELSE head

\* os.path.join(a, b)
join(a, b) ==
  IF startswith(b, <<Sep>>) THEN b
  ELSE IF a = <<>> \/ endswith(a, <<Sep>>) THEN a \o b
  ELSE a \o <<Sep>> \o b

\* os.path.splitext(p)[0]: p without its extension. The extension starts at the
\* last dot of the last component, unless only dots precede that dot there.
splitext_root(p) ==
  LET sepIndex == rfind(p, Sep)
      dotIndex == rfind(p, ExtSep) IN
  IF dotIndex > sepIndex /\ \E k \in sepIndex + 1 .. dotIndex - 1 : p[k] # ExtSep
  THEN SubSeq(p, 1, dotIndex - 1)
  ELSE p

\* str.lower(), on the characters of the model
LowerChar(c) ==
  CASE c = "M" -> "m" [] c = "D" -> "d" [] c = "B" -> "b" [] OTHER -> c
lower(s) == [k \in DOMAIN s |-> LowerChar(s[k])]

DotMd == <<".", "m", "d">>
DotDocx == <<".", "d", "o", "c", "x">>

\* line 194: filename.lower().endswith('.md')
is_markdown_exact(filename) == endswith(filename, DotMd)
is_markdown(filename) == endswith(lower(filename), DotMd)

VARIABLES
  ct_arg,    \* the argument of the first call of clean_text
  ct_text,   \* clean_text's local variable text
  ct_pc,     \* the line clean_text is about to execute
  ct_ret,    \* the values clean_text returned so far, in order
  element,   \* process_html_to_docx: the loop variable of line 57
  node_idx,  \* the number of top-level nodes the loop has taken from soup.children
  doc,       \* the document: its paragraphs, in order
  mp_pc,     \* process_html_to_docx: "idle", "loop" or "returned"
  args_input,    \* main: args.input
  args_output,   \* main: args.output (None when --output is not given)
  listing,       \* what os.listdir gives for the input directory, in its order
  cond,          \* the input files: path -> "ok", "missing", "denied" or "notutf8"
  dirs,          \* the directories that exist (besides the working directory)
  saved,         \* the documents on disk: pairs <<path, input file converted>>
  pc,            \* the statement main, convert_directory or convert_md_to_docx is at
  caller,        \* who called convert_md_to_docx: "main" or "convert_directory"
  idx,           \* convert_directory: the entries of listing the loop is done with
  success_count, \* convert_directory
  failure_count, \* convert_directory
  input_file,    \* convert_md_to_docx: parameter
  output_path,   \* convert_md_to_docx and convert_directory: parameter
  output_file,   \* convert_md_to_docx: local (None until line 147-157 sets it)
  exc,           \* the exception being raised: <<type, line>>, or <<>>
  calls,         \* the calls of convert_md_to_docx so far: the input file, the
                 \* result ("pending", "True", "False", "raised"), the file
                 \* saved and the line that raised
  stdout,        \* what was printed about single files
  summary,       \* the counts printed by lines 202-203: <<success, failure>>, or <<>>
  dirs0,         \* dirs when the current call of convert_md_to_docx started
  saved0         \* saved when the current call of convert_md_to_docx started

textVars == <<ct_arg, ct_text, ct_pc, ct_ret>>
mapVars == <<element, node_idx, doc, mp_pc>>
fsVars == <<listing, cond, dirs, saved>>
dirVars == <<idx, success_count, failure_count, summary>>
callVars == <<input_file, output_file, exc, calls, stdout, dirs0, saved0>>
convVars ==
  <<args_input, args_output, pc, caller, output_path, fsVars, dirVars, callVars>>
vars == <<textVars, mapVars, convVars>>

NoElement == [name |-> "none", text |-> <<>>, children |-> <<>>]

TextIdle ==
  /\ ct_arg = <<>> /\ ct_text = <<>> /\ ct_pc = "idle" /\ ct_ret = <<>>

MapIdle ==
  /\ element = NoElement /\ node_idx = 0 /\ doc = <<>> /\ mp_pc = "idle"

ConvIdle ==
  /\ args_input = <<>> /\ args_output = None /\ listing = <<>> /\ cond = <<>>
  /\ dirs = {} /\ saved = {} /\ pc = "idle" /\ caller = "none" /\ idx = 0
  /\ success_count = 0 /\ failure_count = 0 /\ input_file = <<>>
  /\ output_path = None /\ output_file = None /\ exc = <<>> /\ calls = <<>>
  /\ stdout = <<>> /\ summary = <<>> /\ dirs0 = {} /\ saved0 = {}

\* ------------------------------------------------- clean_text, line by line
TextInit ==
  /\ ct_arg \in Texts
  /\ ct_text = ct_arg
  /\ ct_pc = "L36"
  /\ ct_ret = <<>>
  /\ MapIdle /\ ConvIdle

\* line 36: text = re.sub(r'\s+', ' ', text)
Line36 ==
  /\ ct_pc = "L36"
  /\ ct_text' = clean_line36(ct_text)
  /\ ct_pc' = "L38"
  /\ UNCHANGED <<ct_arg, ct_ret, mapVars, convVars>>

\* line 38: text = text.strip()
Line38 ==
  /\ ct_pc = "L38"
  /\ ct_text' = clean_line38(ct_text)
  /\ ct_pc' = "L40"
  /\ UNCHANGED <<ct_arg, ct_ret, mapVars, convVars>>

\* line 40: the double-quote substitutions
Line40 ==
  /\ ct_pc = "L40"
  /\ ct_text' = clean_line40(ct_text)
  /\ ct_pc' = "L41"
  /\ UNCHANGED <<ct_arg, ct_ret, mapVars, convVars>>

\* line 41: the single-quote substitution
Line41 ==
  /\ ct_pc = "L41"
  /\ ct_text' = clean_line41(ct_text)
  /\ ct_pc' = "L43"
  /\ UNCHANGED <<ct_arg, ct_ret, mapVars, convVars>>

\* line 43: text = text.replace('--', <en dash>)
Line43 ==
  /\ ct_pc = "L43"
  /\ ct_text' = clean_line43(ct_text)
  /\ ct_pc' = "L45"
  /\ UNCHANGED <<ct_arg, ct_ret, mapVars, convVars>>

\* line 45: text = re.sub(r'\n\s*\n', '\n', text)
Line45 ==
  /\ ct_pc = "L45"
  /\ ct_text' = clean_line45(ct_text)
  /\ ct_pc' = "L46"
  /\ UNCHANGED <<ct_arg, ct_ret, mapVars, convVars>>

\* line 46: return text
Line46 ==
  /\ ct_pc = "L46"
  /\ ct_ret' = Append(ct_ret, ct_text)
  /\ ct_pc' = "returned"
  /\ UNCHANGED <<ct_arg, ct_text, mapVars, convVars>>

\* clean_text called on the value it just returned
CallAgain ==
  /\ ct_pc = "returned"
  /\ Len(ct_ret) < MaxCalls
  /\ ct_text' = ct_ret[Len(ct_ret)]
  /\ ct_pc' = "L36"
  /\ UNCHANGED <<ct_arg, ct_ret, mapVars, convVars>>

TextNext ==
  \/ Line36 \/ Line38 \/ Line40 \/ Line41 \/ Line43 \/ Line45 \/ Line46
  \/ CallAgain

SpecText == TextInit /\ [][TextNext]_vars

\* ------------------------------------------------- process_html_to_docx
\* soup.children is read-only and the for statement of line 57 takes its nodes
\* front to back; each node is drawn when the loop reaches it.
MapInit ==
  /\ element = NoElement /\ node_idx = 0 /\ doc = <<>> /\ mp_pc = "loop"
  /\ TextIdle /\ ConvIdle

\* The loop takes the next top-level node e and leaves the document as d.
Visit(e, d) ==
  /\ mp_pc = "loop"
  /\ node_idx < MaxNodes
  /\ element' = e
  /\ node_idx' = node_idx + 1
  /\ doc' = d
  /\ UNCHANGED <<mp_pc, textVars, convVars>>

\* lines 58-67: a NavigableString
TextNode ==
  \E e \in NodesNamed({NoName}) :
    LET text == clean_text(e.text)
        p == NewParagraph(text, node_idx + 1) IN
    Visit(e, IF strip(e.text) = <<>> THEN doc
             ELSE IF text # <<>> THEN add_paragraph(doc, p)
             ELSE doc)

\* lines 69-74: h1 .. h6
Heading ==
  \E e \in NodesNamed(HeadingNames) :
    LET text == clean_text(get_text(e))
        p == [NewParagraph(text, node_idx + 1) EXCEPT !.style = HeadingStyle(e.name)] IN
    Visit(e, IF text # <<>> THEN add_paragraph(doc, p) ELSE doc)

\* lines 76-80 without the test of line 78
Paragraph_unguarded ==
  \E e \in NodesNamed({"p"}) :
    Visit(e, add_paragraph(doc, NewParagraph(clean_text(get_text(e)), node_idx + 1)))

\* lines 76-80: p
Paragraph ==
  \E e \in NodesNamed({"p"}) :
    LET text == clean_text(get_text(e))
        p == NewParagraph(text, node_idx + 1) IN
    Visit(e, IF text # <<>> THEN add_paragraph(doc, p) ELSE doc)

\* lines 83-89: the loop over the direct li children of a list
RECURSIVE ListItems(_, _, _, _)
ListItems(d, lis, name, node) ==
  IF lis = <<>> THEN d
  ELSE LET text == clean_text(Head(lis).text)
           p == [NewParagraph(text, node) EXCEPT
                   !.style = IF name = "ul" THEN "List Bullet" ELSE "List Number",
                   !.left_indent = ListIndent] IN
       ListItems(IF text # <<>> THEN add_paragraph(d, p) ELSE d, Tail(lis), name, node)

\* lines 82-89: ul, ol
List ==
  \E e \in ListNodes :
    Visit(e, ListItems(doc, find_all_li(e), e.name, node_idx + 1))

\* lines 91-99: blockquote
Blockquote ==
  \E e \in NodesNamed({"blockquote"}) :
    LET text == clean_text(get_text(e))
        p == [NewParagraph(text, node_idx + 1) EXCEPT
                !.style = "Quote", !.left_indent = QuoteIndent,
                !.runs = [k \in DOMAIN @ |-> [@[k] EXCEPT !.italic = TRUE]]] IN
    Visit(e, IF text # <<>> THEN add_paragraph(doc, p) ELSE doc)

\* lines 101-111: pre
Pre ==
  \E e \in NodesNamed({"pre"}) :
    LET text == clean_text(get_text(e))
        p == [NewParagraph(<<>>, node_idx + 1) EXCEPT
                !.style = "No Spacing",
                !.runs = <<[Run(text) EXCEPT !.font_name = "Courier New",
                                             !.font_size = CodeSize]>>,
                !.left_indent = CodeIndent, !.right_indent = CodeIndent] IN
    Visit(e, IF text # <<>> THEN add_paragraph(doc, p) ELSE doc)

\* lines 113-117: hr
Hr ==
  \E e \in NodesNamed({"hr"}) :
    LET p == [NewParagraph(<<>>, node_idx + 1) EXCEPT
                !.alignment = Center,
                !.runs = <<[Run([k \in 1..RuleWidth |-> BoxChar]) EXCEPT
                              !.font_size = RuleSize]>>] IN
    Visit(e, add_paragraph(doc, p))

\* no branch of lines 69-117 names the element: nothing is done for it
OtherElement ==
  \E e \in NodesNamed({"div", "table"}) : Visit(e, doc)

\* soup.children is exhausted: the function returns
LoopEnd ==
  /\ mp_pc = "loop"
  /\ mp_pc' = "returned"
  /\ UNCHANGED <<element, node_idx, doc, textVars, convVars>>

MapNext ==
  \/ TextNode \/ Heading \/ Paragraph \/ List \/ Blockquote \/ Pre \/ Hr
  \/ OtherElement \/ LoopEnd

SpecMapper == MapInit /\ [][MapNext]_vars

\* ------------------------------------------------- the file system
NotePath == <<"n", "o", "t", "e", ".", "m", "d">>
DirD == <<"D">>
DirO == <<"O">>
DirN == <<"N">>
\* the values of --output
OutputArgs == {None, DirO, DirN, <<"N", "/", "o", ".", "d", "o", "c", "x">>}
\* the entry names of the input directory
Names == {<<"a", ".", "m", "d">>, <<"b", ".", "M", "D">>, <<".", "m", "d">>, <<"c", ".", "t", "x", "t">>}
\* what reading a file does: "ok" reads it, "missing" raises FileNotFoundError and
\* "denied" PermissionError (both OSError), "notutf8" raises UnicodeDecodeError
\* (a ValueError) from f.read()
Conds == {"ok", "missing", "denied", "notutf8"}

\* The listings of a directory: its entries, each once, in any order.
RECURSIVE Listings(_)
Listings(n) ==
  IF n = 0 THEN {<<>>}
  ELSE Listings(n - 1) \cup
       {Append(l, x) : l \in {y \in Listings(n - 1) : Len(y) = n - 1},
                       x \in Names}

Range(f) == {f[k] : k \in DOMAIN f}
Injective(l) == \A j, k \in DOMAIN l : l[j] = l[k] => j = k

\* os.path.isfile(p), for an input path
isfile(p) == p \in DOMAIN cond /\ cond[p] # "missing"
\* os.path.isdir(p)
isdir(p) == p \in dirs

\* The paths that are files: the inputs and the saved documents.
FilePaths == {p \in DOMAIN cond : cond[p] # "missing"} \cup {s[1] : s \in saved}

\* d and the directories above it
RECURSIVE Ancestors(_)
Ancestors(d) == IF d = <<>> \/ dirname(d) = d THEN {} ELSE {d} \cup Ancestors(dirname(d))

\* os.makedirs(d, exist_ok=True) when it succeeds: d and the directories above it exist
makedirs(ds, d) == ds \cup Ancestors(d)
\* it raises FileExistsError or NotADirectoryError when a file is in the way
MakedirsMustFail(d) == Ancestors(d) \cap FilePaths # {}

\* doc.save(path) when it succeeds: the document of input file f is at path,
\* replacing what was there
save(sv, path, f) == {s \in sv : s[1] # path} \cup {<<path, f>>}
\* it raises an OSError when path is empty, is a directory, or is in no directory
SaveMustFail(path) ==
  \/ path = <<>>
  \/ path \in dirs
  \/ dirname(path) # <<>> /\ dirname(path) \notin dirs

\* lines 147-157: the output file for input file f, given output path o
output_file_literal(f, o) ==
  IF o = None THEN splitext_root(f) \o DotDocx ELSE o
output_file_for(f, o) ==
  IF o = None THEN splitext_root(f) \o DotDocx
  ELSE IF isdir(o) THEN join(o, splitext_root(basename(f)) \o DotDocx)
  ELSE o

\* ------------------------------------------------- main
ConvInit ==
  /\ args_input \in {NotePath, DirD}
  /\ args_output \in OutputArgs
  /\ listing \in IF args_input = DirD
                 THEN {l \in Listings(MaxEntries) : Injective(l)} ELSE {<<>>}
  /\ cond \in [{join(DirD, n) : n \in Range(listing)} \cup {NotePath} -> Conds]
  /\ args_input = DirD => cond[NotePath] = "ok"
  /\ dirs = {DirD, DirO}
  /\ saved = {}
  /\ pc = "main" /\ caller = "none" /\ idx = 0
  /\ success_count = 0 /\ failure_count = 0
  /\ input_file = <<>> /\ output_path = None /\ output_file = None
  /\ exc = <<>> /\ calls = <<>> /\ stdout = <<>> /\ summary = <<>>
  /\ dirs0 = {} /\ saved0 = {}
  /\ TextIdle /\ MapIdle

\* convert_md_to_docx(f, o) is called by who
Call(f, o, who) ==
  /\ input_file' = f
  /\ output_path' = o
  /\ output_file' = None
  /\ caller' = who
  /\ calls' = Append(calls, [input_file |-> f, result |-> "pending", output_file |-> None,
                            failed_at |-> "none"])
  /\ dirs0' = dirs /\ saved0' = saved
  /\ pc' = "L133"
  /\ UNCHANGED <<exc, stdout>>

\* lines 228-230: the input is a file
MainFile ==
  /\ pc = "main"
  /\ isfile(args_input)
  /\ Call(args_input, args_output, "main")
  /\ UNCHANGED <<args_input, args_output, fsVars, dirVars, textVars, mapVars>>

\* lines 231-233: the input is a directory
MainDirectory ==
  /\ pc = "main"
  /\ ~isfile(args_input) /\ isdir(args_input)
  /\ pc' = "L181"
  /\ output_path' = args_output
  /\ UNCHANGED <<args_input, args_output, caller, fsVars, dirVars, callVars,
                 textVars, mapVars>>

\* lines 234-235: the input is neither
MainInvalid ==
  /\ pc = "main"
  /\ ~isfile(args_input) /\ ~isdir(args_input)
  /\ pc' = "done"
  /\ stdout' = Append(stdout, [msg |-> "is not a valid file or directory", file |-> args_input])
  /\ UNCHANGED <<args_input, args_output, caller, output_path, fsVars, dirVars,
                 input_file, output_file, exc, calls, dirs0, saved0, textVars, mapVars>>

\* ------------------------------------------------- convert_directory
\* lines 181-190: the directory is checked, the output directory made, the
\* counters set to 0
DirStart ==
  /\ pc = "L181"
  /\ IF ~isdir(args_input)
     THEN /\ pc' = "done"
          /\ stdout' = Append(stdout, [msg |-> "is not a directory", file |-> args_input])
          /\ UNCHANGED dirs
     ELSE /\ pc' = "L193"
          /\ UNCHANGED stdout
          /\ IF output_path # None /\ output_path # <<>>
             THEN ~MakedirsMustFail(output_path) /\ dirs' = makedirs(dirs, output_path)
             ELSE UNCHANGED dirs
  /\ success_count' = 0 /\ failure_count' = 0 /\ idx' = 0
  /\ UNCHANGED <<args_input, args_output, caller, output_path, listing, cond, saved,
                 summary, input_file, output_file, exc, calls, dirs0, saved0,
                 textVars, mapVars>>

\* line 187 raises an OSError, which nothing catches
DirStartRaises ==
  /\ pc = "L181"
  /\ isdir(args_input)
  /\ output_path # None /\ output_path # <<>>
  /\ ~isdir(output_path)
  /\ pc' = "raised"
  /\ exc' = <<"OSError", "L187">>
  /\ UNCHANGED <<args_input, args_output, caller, output_path, fsVars, dirVars,
                 input_file, output_file, calls, stdout, dirs0, saved0,
                 textVars, mapVars>>

\* lines 193-194: the next entry is not a markdown file
DirSkip ==
  /\ pc = "L193"
  /\ idx < Len(listing)
  /\ ~is_markdown(listing[idx + 1])
  /\ idx' = idx + 1
  /\ UNCHANGED <<args_input, args_output, pc, caller, output_path, fsVars,
                 success_count, failure_count, summary, callVars, textVars, mapVars>>

\* lines 193-196: the next entry is a markdown file, and is converted
DirConvert ==
  /\ pc = "L193"
  /\ idx < Len(listing)
  /\ is_markdown(listing[idx + 1])
  /\ Call(join(args_input, listing[idx + 1]), output_path, "convert_directory")
  /\ UNCHANGED <<args_input, args_output, fsVars, dirVars, textVars, mapVars>>

\* lines 196-199: the call returned, one counter is incremented
DirCount ==
  /\ pc = "return" /\ caller = "convert_directory"
  /\ IF calls[Len(calls)].result = "True"
     THEN success_count' = success_count + 1 /\ UNCHANGED failure_count
     ELSE failure_count' = failure_count + 1 /\ UNCHANGED success_count
  /\ idx' = idx + 1
  /\ pc' = "L193"
  /\ UNCHANGED <<args_input, args_output, caller, output_path, fsVars, summary,
                 callVars, textVars, mapVars>>

\* lines 201-203: the listing is exhausted, the summary is printed
DirSummary ==
  /\ pc = "L193"
  /\ idx = Len(listing)
  /\ summary' = <<success_count, failure_count>>
  /\ pc' = "done"
  /\ UNCHANGED <<args_input, args_output, caller, output_path, fsVars, idx,
                 success_count, failure_count, callVars, textVars, mapVars>>

\* line 230: the call returned to main, which ignores the result
MainReturn ==
  /\ pc = "return" /\ caller = "main"
  /\ pc' = "done"
  /\ UNCHANGED <<args_input, args_output, caller, output_path, fsVars, dirVars,
                 callVars, textVars, mapVars>>

\* ------------------------------------------------- convert_md_to_docx
ConvFrame ==
  UNCHANGED <<args_input, args_output, caller, output_path, listing, cond,
              dirVars, input_file, dirs0, saved0, textVars, mapVars>>

\* lines 133-134: the input is read
ConvRead ==
  /\ pc = "L133"
  /\ cond[input_file] = "ok"
  /\ pc' = "L137"
  /\ UNCHANGED <<dirs, saved, output_file, exc, calls, stdout>>
  /\ ConvFrame

\* the same, with the output directory made before the input is opened
ConvReadOSError_after_makedirs ==
  /\ pc = "L133"
  /\ cond[input_file] \in {"missing", "denied"}
  /\ exc' = <<"OSError", "L133">>
  /\ pc' = "L168"
  /\ dirs' = makedirs(dirs, dirname(output_file_for(input_file, output_path)))
  /\ UNCHANGED <<saved, output_file, calls, stdout>>
  /\ ConvFrame

\* lines 133-134 raise an OSError: the file is missing or may not be read
ConvReadOSError ==
  /\ pc = "L133"
  /\ cond[input_file] \in {"missing", "denied"}
  /\ exc' = <<"OSError", "L133">>
  /\ pc' = "L168"
  /\ UNCHANGED <<dirs, saved, output_file, calls, stdout>>
  /\ ConvFrame

\* line 134 raises UnicodeDecodeError: the content is not UTF-8. It is a
\* ValueError, which the except clause of line 168 does not name: the exception
\* leaves convert_md_to_docx and, uncaught in its callers, ends the run.
ConvReadDecodeError ==
  /\ pc = "L133"
  /\ cond[input_file] = "notutf8"
  /\ exc' = <<"UnicodeDecodeError", "L134">>
  /\ pc' = "raised"
  /\ calls' = [calls EXCEPT ![Len(calls)].result = "raised",
                            ![Len(calls)].failed_at = "L134"]
  /\ UNCHANGED <<dirs, saved, output_file, stdout>>
  /\ ConvFrame

\* lines 137-144: the markup tree and the document are built (in memory)
ConvMap ==
  /\ pc = "L137"
  /\ pc' = "L147"
  /\ UNCHANGED <<dirs, saved, output_file, exc, calls, stdout>>
  /\ ConvFrame

\* lines 147-157: the output file is determined
ConvResolve ==
  /\ pc = "L147"
  /\ output_file' = output_file_for(input_file, output_path)
  /\ pc' = "L160"
  /\ UNCHANGED <<dirs, saved, exc, calls, stdout>>
  /\ ConvFrame

\* lines 160-162: the directory of the output file is made if it has one
ConvMakedirs ==
  /\ pc = "L160"
  /\ IF dirname(output_file) # <<>>
     THEN /\ ~MakedirsMustFail(dirname(output_file))
          /\ dirs' = makedirs(dirs, dirname(output_file))
     ELSE UNCHANGED dirs
  /\ pc' = "L165"
  /\ UNCHANGED <<saved, output_file, exc, calls, stdout>>
  /\ ConvFrame

\* line 162 raises an OSError
ConvMakedirsOSError ==
  /\ pc = "L160"
  /\ dirname(output_file) # <<>>
  /\ ~isdir(dirname(output_file))
  /\ exc' = <<"OSError", "L162">>
  /\ pc' = "L168"
  /\ UNCHANGED <<dirs, saved, output_file, calls, stdout>>
  /\ ConvFrame

\* lines 165-167: the document is saved, True is returned
ConvSave ==
  /\ pc = "L165"
  /\ ~SaveMustFail(output_file)
  /\ saved' = save(saved, output_file, input_file)
  /\ stdout' = Append(stdout, [msg |-> "Successfully converted", file |-> input_file])
  /\ calls' = [calls EXCEPT ![Len(calls)].result = "True",
                            ![Len(calls)].output_file = output_file]
  /\ pc' = "return"
  /\ UNCHANGED <<dirs, output_file, exc>>
  /\ ConvFrame

\* line 165 raises an OSError
ConvSaveOSError ==
  /\ pc = "L165"
  /\ exc' = <<"OSError", "L165">>
  /\ pc' = "L168"
  /\ UNCHANGED <<dirs, saved, output_file, calls, stdout>>
  /\ ConvFrame

\* lines 168-170: the OSError is caught and reported, False is returned
ConvExcept ==
  /\ pc = "L168"
  /\ exc' = <<>>
  /\ stdout' = Append(stdout, [msg |-> "Error processing file", file |-> input_file])
  /\ calls' = [calls EXCEPT ![Len(calls)].result = "False",
                            ![Len(calls)].failed_at = exc[2]]
  /\ pc' = "return"
  /\ UNCHANGED <<dirs, saved, output_file>>
  /\ ConvFrame

ConvNext ==
  \/ MainFile \/ MainDirectory \/ MainInvalid \/ MainReturn
  \/ DirStart \/ DirStartRaises \/ DirSkip \/ DirConvert \/ DirCount \/ DirSummary
  \/ ConvRead \/ ConvReadOSError \/ ConvReadDecodeError \/ ConvMap \/ ConvResolve
  \/ ConvMakedirs \/ ConvMakedirsOSError \/ ConvSave \/ ConvSaveOSError
  \/ ConvExcept

Spec == ConvInit /\ [][ConvNext]_vars

\* ------------------------------------------------- the converters' properties
\* A name ending in .md, the letters in either case.
EndsInMd(n) ==
  /\ Len(n) >= 3
  /\ n[Len(n) - 2] = "."
  /\ n[Len(n) - 1] \in {"m", "M"}
  /\ n[Len(n)] \in {"d", "D"}

\* The entries of the listing that end in .md, in the listing's order, as the
\* paths convert_directory passes on.
MdInputs(l) == [k \in DOMAIN SelectSeq(l, EndsInMd) |-> DirD \o <<"/">> \o SelectSeq(l, EndsInMd)[k]]

Count(res) == Cardinality({k \in DOMAIN calls : calls[k].result = res})

\* C1: a run of convert_directory that got to its loop ends with the summary,
\* whatever files fail: every entry ending in .md was converted or reported
\* failed, every success has its document on disk, and the summary counts both.
C1_BatchNeverAborts ==
  (args_input = DirD /\ pc \in {"done", "raised"} /\ exc # <<"OSError", "L187">>) =>
    /\ pc = "done"
    /\ summary = <<Count("True"), Count("False")>>
    /\ [k \in DOMAIN calls |-> calls[k].input_file] = MdInputs(listing)
    /\ \A k \in DOMAIN calls :
         /\ calls[k].result \in {"True", "False"}
         /\ calls[k].result = "True" =>
              <<calls[k].output_file, calls[k].input_file>> \in saved

\* C2: no call of convert_md_to_docx lets a failure to read, to make the
\* directory or to save leave it as an exception: each such call reports the
\* input file and returns False.
C2_IOFailuresReturnFalse ==
  \A k \in DOMAIN calls :
    /\ calls[k].result # "raised"
    /\ calls[k].result = "False" =>
         \E m \in DOMAIN stdout :
           stdout[m] = [msg |-> "Error processing file", file |-> calls[k].input_file]

\* The position where the extension of path p starts: that of the last dot of
\* the last component that has a character other than a dot before it in that
\* component; Len(p) + 1 when there is none.
ExtStart(p) ==
  LET comp == {k \in DOMAIN p : \A j \in k .. Len(p) : p[j] # "/"}
      ok == {k \in comp : /\ p[k] = "."
                          /\ \A j \in comp : j > k => p[j] # "."
                          /\ \E j \in comp : j < k /\ p[j] # "."} IN
  IF ok = {} THEN Len(p) + 1 ELSE CHOOSE k \in ok : TRUE
WithDocx(p) == SubSeq(p, 1, ExtStart(p) - 1) \o <<".", "d", "o", "c", "x">>
LastComponent(p) ==
  SubSeq(p, (CHOOSE k \in 1 .. Len(p) + 1 :
               /\ \A j \in k .. Len(p) : p[j] # "/"
               /\ k > 1 => p[k - 1] = "/"), Len(p))

\* C3: once the output file is determined it is: with no output path, the input
\* path with its extension replaced by .docx; with an output path that is an
\* existing directory, that directory joined with the input's base name, its
\* extension replaced by .docx; otherwise the output path itself. The call
\* saves at that path and nowhere else.
C3_OutputFile ==
  /\ output_file # None =>
       output_file =
         IF output_path = None THEN WithDocx(input_file)
         ELSE IF output_path \in dirs0
              THEN output_path \o <<"/">> \o WithDocx(LastComponent(input_file))
              ELSE output_path
  /\ (input_file = <<"n", "o", "t", "e", ".", "m", "d">> /\ output_path = None
        /\ output_file # None)
       => output_file = <<"n", "o", "t", "e", ".", "d", "o", "c", "x">>
  /\ (input_file = <<"D", "/", "a", ".", "m", "d">> /\ output_path = DirO
        /\ output_file # None)
       => output_file = <<"O", "/", "a", ".", "d", "o", "c", "x">>
  /\ pc \notin {"main", "L181", "idle"} /\ Len(calls) > 0 =>
       saved \ saved0 \subseteq {<<output_file, input_file>>}
  /\ \A k \in DOMAIN calls :
       calls[k].result = "True" =>
         <<calls[k].output_file, calls[k].input_file>> \in saved

\* a.md of directory D was converted into the existing directory O
C3_Witness ==
  /\ pc = "return"
  /\ input_file = <<"D", "/", "a", ".", "m", "d">> /\ output_path = DirO
  /\ saved \ saved0 = {<<(<<"O", "/", "a", ".", "d", "o", "c", "x">>), input_file>>}

\* The calls made are the entries ending in .md done so far, each once, in the
\* listing's order; between iterations and in the summary the counters are the
\* numbers of calls that returned True and False.
C8_Counts ==
  args_input = DirD =>
    /\ success_count >= 0 /\ failure_count >= 0
    /\ [k \in DOMAIN calls |-> calls[k].input_file]
         = SubSeq(MdInputs(listing), 1, Len(calls))
    /\ pc = "L193" =>
         /\ Len(calls) = Len(MdInputs(SubSeq(listing, 1, idx)))
         /\ success_count = Count("True") /\ failure_count = Count("False")
         /\ success_count + failure_count = Len(MdInputs(SubSeq(listing, 1, idx)))
    /\ summary # <<>> =>
         /\ summary = <<Count("True"), Count("False")>>
         /\ summary[1] + summary[2] = Len(MdInputs(listing))
         /\ Len(calls) = Len(MdInputs(listing))
\* The counters never decrease; a step changes at most one of them, by one;
\* the step after a call's return increments exactly one, by the result.
C8_Step ==
  /\ success_count' \in {success_count, success_count + 1}
  /\ failure_count' \in {failure_count, failure_count + 1}
  /\ success_count' + failure_count' <= success_count + failure_count + 1
  /\ (pc = "return" /\ caller = "convert_directory") =>
       IF calls[Len(calls)].result = "True"
       THEN success_count' = success_count + 1
       ELSE failure_count' = failure_count + 1
ParentDir(p) ==
  IF \E k \in DOMAIN p : p[k] = "/"
  THEN SubSeq(p, 1, (CHOOSE k \in DOMAIN p :
                       p[k] = "/" /\ \A j \in k + 1 .. Len(p) : p[j] # "/") - 1)
  ELSE <<>>
C10_EffectsAfterRead ==
  Len(calls) > 0 =>
    /\ (pc \in {"L133", "L137", "L147", "L160", "L168", "return", "raised"}
          /\ (pc \in {"L168", "raised"} => exc[2] \in {"L133", "L134"})
          /\ (pc = "return" => calls[Len(calls)].failed_at = "L133"))
         => dirs = dirs0 /\ saved = saved0
    /\ (pc = "return" /\ calls[Len(calls)].result = "True") =>
         /\ <<output_file, input_file>> \in saved
         /\ ParentDir(output_file) = <<>> \/ ParentDir(output_file) \in dirs

\* In one batch a call failed reading its input and a later one returned True.
C10_Witness ==
  /\ pc = "return"
  /\ calls[Len(calls)].result = "True"
  /\ \E k \in DOMAIN calls : calls[k].failed_at = "L133"

\* ------------------------------------------------- the mapper's properties
\* The paragraphs the document holds for the node the loop took last.
Added == SelectSeq(doc, LAMBDA p : p.node = node_idx)

\* A text with no character other than whitespace.
Blank(t) == \A k \in DOMAIN t : t[k] \in WS

\* The direct li children of the current element, by position.
LiPositions == {k \in DOMAIN element.children : element.children[k].name = "li"}

ListStyleOf(name) == IF name = "ul" THEN "List Bullet" ELSE "List Number"

\* C4 (as claimed): a list with N direct li children yields exactly N paragraphs,
\* each with the list's style and left indent 36, whatever the items hold.
C4_ListYieldsN ==
  element.name \in ListNames =>
    /\ Len(Added) = Cardinality(LiPositions)
    /\ \A k \in DOMAIN Added :
         Added[k].style = ListStyleOf(element.name) /\ Added[k].left_indent = 36

\* C4 (amended): a list yields exactly one paragraph for each direct li child
\* whose text is not empty or whitespace-only (N of them when no item is blank),
\* each with style List Bullet (ul) or List Number (ol) and left indent 36.
C4_ListYieldsNonBlank ==
  element.name \in ListNames =>
    /\ Len(Added) =
         Cardinality({k \in LiPositions : ~Blank(element.children[k].text)})
    /\ \A k \in DOMAIN Added :
         Added[k].style = ListStyleOf(element.name) /\ Added[k].left_indent = 36

\* A ul with two non-blank li children has yielded two List Bullet paragraphs.
C4_Witness ==
  /\ element.name = "ul"
  /\ Cardinality(LiPositions) = 2
  /\ \A k \in LiPositions : ~Blank(element.children[k].text)
  /\ Len(Added) = 2
  /\ Added[1].style = "List Bullet"

\* C5 (as claimed): every top-level node adds 0 or 1 paragraph, and none when
\* its extracted text is empty or whitespace-only.
C5_AtMostOne ==
  node_idx > 0 =>
    /\ Len(Added) <= 1
    /\ Blank(get_text(element)) => Len(Added) = 0

\* C5 (amended): a top-level node that is not a list adds 0 or 1 paragraph and a
\* list adds at most one per direct li child; a node other than hr whose
\* extracted text is empty or whitespace-only adds none.
C5_AtMostOnePerBlock ==
  node_idx > 0 =>
    /\ element.name \notin ListNames => Len(Added) <= 1
    /\ element.name \in ListNames => Len(Added) <= Cardinality(LiPositions)
    /\ (element.name # "hr" /\ Blank(get_text(element))) => Len(Added) = 0

\* A p whose text is whitespace-only was visited after a node that added a
\* paragraph, and added none.
C5_Witness ==
  /\ node_idx = 2
  /\ element.name = "p" /\ element.text = <<" ">>
  /\ Len(doc) = 1 /\ Added = <<>>

\* A step leaves the paragraphs the document held where they were.
C6_AppendOnly ==
  Len(doc') >= Len(doc) /\ SubSeq(doc', 1, Len(doc)) = doc
\* An earlier paragraph comes from a node that is not later in the tree.
C6_Ordered ==
  \A j, k \in DOMAIN doc : j < k => doc[j].node <= doc[k].node
\* C6: the document only grows at its end (what it held stays where it was) and
\* its paragraphs are in the order of the top-level nodes they come from.
C6_AppendOnlyOrdered == [][C6_AppendOnly]_vars /\ []C6_Ordered

\* The function returned a document whose two paragraphs come from two nodes.
C6_Witness ==
  /\ mp_pc = "returned"
  /\ Len(doc) = 2 /\ doc[1].node = 1 /\ doc[2].node = 2

\* ------------------------------------------------- clean_text's properties
\* C7: clean_text is idempotent: a second application returns what the first did.
C7_Idempotent == Len(ct_ret) >= 2 => ct_ret[2] = ct_ret[1]

\* C9: the quote substitutions of lines 40 and 41 leave the text as it was.
C9_QuotesNoOp == [][(ct_pc \in {"L40", "L41"} => ct_text' = ct_text)]_vars
====
